---- MODULE Spec2Model ----
(***************************************************************************)
(* Directorio de clientes (Directorio_App.py): the pipeline that reads     *)
(* the sales sheet, derives one directory row per customer, resolves a    *)
(* catalog from one of its sources, merges it and applies the filters.     *)
(*                                                                         *)
(* Data representation                                                     *)
(*   - a text cell is a sequence of one-character strings, so that         *)
(*     str.strip() is computed on the characters; the pandas <NA> of a     *)
(*     string column is the one-element sequence NA;                       *)
(*   - a raw date cell is a record [k, d]: k = "fecha" (a date the parser  *)
(*     accepts, d its day number), "texto" (text the parser rejects) or    *)
(*     "vacio" (an empty cell);                                            *)
(*   - a parsed date, and a day count, is a sequence of length <= 1:       *)
(*     <<>> is NaT / NaN, <<d>> a value;                                   *)
(*   - a table is [cols |-> set of column names, rows |-> sequence of      *)
(*     functions from cols to cells];                                      *)
(*   - an Optional table (DataFrame | None) is [hay, filas];               *)
(*   - a cache entry is [hay, v]: v is the cached value when hay.          *)
(* Timestamps are calendar days: the sheets hold date cells.               *)
(***************************************************************************)
EXTENDS Integers, Sequences, FiniteSets, TLC

VARIABLES
    modo,           \* MODO_CARGA: "drive" or "local"
    id_catalogo,    \* GDRIVE_FILE_ID_CATALOGO is set (TRUE) or None (FALSE)
    pc,             \* position of the script
    error,          \* where an exception was raised ("" when none)
    aviso,          \* st.warning was shown by cargar_catalogo_mismo_excel
    ventas_raw,     \* the sales sheet as read
    ventas,         \* the table returned by preparar_ventas
    hoja_mismo,     \* what the catalog sheet of the sales workbook held
    fuente_ext,     \* what the external catalog source held
    consultadas,    \* the catalog sources consulted, in order
    catalogo,       \* the catalog the load sequence ends with
    hoy,            \* the current-date snapshot of calcular_directorio
    base,           \* calcular_directorio(ventas)
    df,             \* merge_catalogo(base, catalogo)
    texto,          \* the search text input
    estatus,        \* the "Estatus" selectbox
    vendedor,       \* the "Vendedor" selectbox
    rango,          \* the value of the day-range slider
    f,              \* the table displayed and exported
    cache           \* what st.cache_data holds: the Drive read of the sales
                    \* sheet, the result of cargar_catalogo_mismo_excel and
                    \* the Drive read of the external catalog

vars == <<modo, id_catalogo, pc, error, aviso, ventas_raw, ventas, hoja_mismo,
          fuente_ext, consultadas, catalogo, hoy, base, df, texto, estatus,
          vendedor, rango, f, cache>>

----------------------------------------------------------------------------
(* Configuration, section (A) of the script *)

DIAS_EN_USO == 90
COL_CLIENTE == "Cliente"
COL_VENDEDOR == "Nombredecontacto"
\* (column names in ASCII)
FECHAS_COLS ==
    << "Fechadepedido", "Fechadeenviosolicitada", "Fechadevencimiento",
       "Fechaenviada", "Fechadelafactura", "FechadePago",
       "FECHA REAL DEPAGO", "fecha de envio" >>

----------------------------------------------------------------------------
(* Bounds of the exploration *)

\* rows of the sales sheet
MaxVentas == 2
\* rows of a catalog source
MaxCatalogo == 2

----------------------------------------------------------------------------
(* Cells *)

NA == << "<NA>" >>
NaT == << >>
Texto == [k |-> "texto", d |-> 0]
Vacio == [k |-> "vacio", d |-> 0]
Fecha(n) == [k |-> "fecha", d |-> n]
VendedorNA == "<NA>"

Ninguno == [hay |-> FALSE, filas |-> << >>]
Algun(filas) == [hay |-> TRUE, filas |-> filas]

SeqsHasta(S, n) == UNION { [1..k -> S] : k \in 0..n }
Rango(s) == { s[i] : i \in DOMAIN s }

\* the elements of s at the positions K, in order
Filtrar(s, K) ==
    [k \in 1..Cardinality(K) |->
        s[CHOOSE i \in K : Cardinality({ j \in K : j < i }) + 1 = k]]

RECURSIVE Aplanar(_)
Aplanar(ss) == IF ss = << >> THEN << >> ELSE Head(ss) \o Aplanar(Tail(ss))

\* the permutation a stable sort applies: menor[i, j] is the strict order of
\* the sort keys of positions i and j
OrdenEstable(n, menor) ==
    [k \in 1..n |->
        CHOOSE i \in 1..n :
            Cardinality({ j \in 1..n : menor[j, i] \/ (~menor[i, j] /\ j < i) }) + 1 = k]

\* str.strip(): leading and trailing whitespace removed, <NA> kept
RECURSIVE LStrip(_)
LStrip(s) == IF s # << >> /\ Head(s) = " " THEN LStrip(Tail(s)) ELSE s
RECURSIVE RStrip(_)
RStrip(s) ==
    IF s # << >> /\ s[Len(s)] = " " THEN RStrip(SubSeq(s, 1, Len(s) - 1)) ELSE s
Strip(s) == IF s = NA THEN NA ELSE LStrip(RStrip(s))

\* code point order of the characters used
CharOrd(c) == CASE c = " " -> 32 [] c = "A" -> 65 [] c = "B" -> 66 [] OTHER -> 127
MenorTexto(a, b) ==
    \E k \in 1..Len(b) :
        /\ \A m \in 1..(k - 1) : m <= Len(a) /\ a[m] = b[m]
        /\ \/ k = Len(a) + 1
           \/ k <= Len(a) /\ CharOrd(a[k]) < CharOrd(b[k])

----------------------------------------------------------------------------
(* (D) UTILIDADES *)

\* pd.to_datetime(errors="coerce") on one cell
_to_datetime(c) == IF c.k = "fecha" THEN << c.d >> ELSE NaT

\* MaxFecha taking the earliest date instead of the latest
MaxFecha_min(S) ==
    LET vals == { x[1] : x \in { y \in S : y # << >> } }
    IN IF vals = {} THEN << >> ELSE << CHOOSE m \in vals : \A v \in vals : m <= v >>

\* max(skipna=True) of a set of parsed dates
MaxFecha(S) ==
    LET vals == { x[1] : x \in { y \in S : y # NaT } }
    IN IF vals = {} THEN NaT ELSE << CHOOSE m \in vals : \A v \in vals : v <= m >>

existentes(t) == SelectSeq(FECHAS_COLS, LAMBDA c : c \in t.cols)

\* one row of preparar_ventas: the date columns parsed, FechaVenta_Fila added
PrepararFila(r, cols) ==
    LET ex == { c \in Rango(FECHAS_COLS) : c \in cols }
        p == [c \in cols |-> IF c \in ex THEN _to_datetime(r[c]) ELSE r[c]]
    IN [c \in cols \cup {"FechaVenta_Fila"} |->
            IF c = "FechaVenta_Fila" THEN MaxFecha({ p[x] : x \in ex }) ELSE p[c]]

\* preparar_ventas; ok = FALSE is the ValueError
preparar_ventas(t) ==
    IF existentes(t) = << >>
    THEN [ok |-> FALSE, cols |-> t.cols, rows |-> << >>]
    ELSE [ok |-> TRUE,
          cols |-> t.cols \cup {"FechaVenta_Fila"},
          rows |-> [i \in DOMAIN t.rows |-> PrepararFila(t.rows[i], t.cols)]]

\* calcular_directorio, lines 131-133: rows with a Cliente, stripped
FilasConCliente(t) ==
    LET s == Filtrar(t.rows, { i \in DOMAIN t.rows : t.rows[i][COL_CLIENTE] # NA })
    IN [i \in DOMAIN s |-> [s[i] EXCEPT ![COL_CLIENTE] = Strip(@)]]

\* the group keys of groupby(COL_CLIENTE), sorted
Claves(d) ==
    LET C == { d[i][COL_CLIENTE] : i \in DOMAIN d }
    IN [k \in 1..Cardinality(C) |->
            CHOOSE c \in C : Cardinality({ x \in C : MenorTexto(x, c) }) + 1 = k]

\* (hoy - UltimaFechaVenta).dt.days
DiasDesde(h, u) == IF u = NaT THEN << >> ELSE << h - u[1] >>

\* _estatus with the threshold day itself counted as "En uso"
_estatus_inclusive(row) ==
    IF row.UltimaFechaVenta = NaT THEN "Disponible"
    ELSE IF row.Dias_desde_ultima_venta[1] <= DIAS_EN_USO THEN "En uso"
    ELSE "Disponible"

\* the nested _estatus(row)
_estatus(row) ==
    IF row.UltimaFechaVenta = NaT THEN "Disponible"
    ELSE IF row.Dias_desde_ultima_venta[1] < DIAS_EN_USO THEN "En uso"
    ELSE "Disponible"

\* lines 135-146: one row per group with its last date, days and status
Agg(d, h) ==
    LET cl == Claves(d)
    IN [k \in DOMAIN cl |->
          LET u == MaxFecha({ d[i]["FechaVenta_Fila"] :
                              i \in { j \in DOMAIN d : d[j][COL_CLIENTE] = cl[k] } })
              row == [Cliente |-> cl[k], UltimaFechaVenta |-> u,
                      Dias_desde_ultima_venta |-> DiasDesde(h, u)]
          IN [Cliente |-> row.Cliente, UltimaFechaVenta |-> u,
              Dias_desde_ultima_venta |-> row.Dias_desde_ultima_venta,
              Estatus |-> _estatus(row)]]

\* Coincide joining on the date alone
Coincide_solo_fecha(a, r) == a.UltimaFechaVenta = r["FechaVenta_Fila"]

\* the merge keys of lines 156-157 (pandas matches a null key with a null key)
Coincide(a, r) ==
    a.Cliente = r[COL_CLIENTE] /\ a.UltimaFechaVenta = r["FechaVenta_Fila"]

\* agg.merge(df_join, how="left"), lines 154-159: left order kept, the matches
\* of a left row in the order of df_join
MergeVendedor(ag, d) ==
    Aplanar([k \in DOMAIN ag |->
        LET m == Filtrar(d, { i \in DOMAIN d : Coincide(ag[k], d[i]) })
            fila(fv, ve) ==
                [Cliente |-> ag[k].Cliente, Estatus |-> ag[k].Estatus,
                 Dias_desde_ultima_venta |-> ag[k].Dias_desde_ultima_venta,
                 UltimaFechaVenta |-> ag[k].UltimaFechaVenta,
                 FechaVenta_Fila |-> fv, Nombredecontacto |-> ve]
        IN IF m = << >> THEN << fila(NaT, VendedorNA) >>
           ELSE [j \in DOMAIN m |-> fila(m[j]["FechaVenta_Fila"], m[j][COL_VENDEDOR])]])

\* sort_values([COL_CLIENTE, "FechaVenta_Fila"], ascending=[True, False]), line 160
OrdenarClienteFecha(s) ==
    LET despues(a, b) == a # NaT /\ (b = NaT \/ a[1] > b[1])
        menor == [p \in (DOMAIN s) \X (DOMAIN s) |->
                    \/ MenorTexto(s[p[1]].Cliente, s[p[2]].Cliente)
                    \/ /\ s[p[1]].Cliente = s[p[2]].Cliente
                       /\ despues(s[p[1]].FechaVenta_Fila, s[p[2]].FechaVenta_Fila)]
        o == OrdenEstable(Len(s), menor)
    IN [k \in DOMAIN s |-> s[o[k]]]

\* drop_duplicates(subset=[COL_CLIENTE], keep="first"), line 161
drop_duplicates(s) ==
    Filtrar(s, { i \in DOMAIN s : \A j \in 1..(i - 1) : s[j].Cliente # s[i].Cliente })

\* sort_values(["Estatus", "Dias_desde_ultima_venta"]), line 169: NaN last
OrdenarEstatusDias(s) ==
    LET ord(e) == IF e = "Disponible" THEN 0 ELSE 1
        antes(a, b) == a # << >> /\ (b = << >> \/ a[1] < b[1])
        menor == [p \in (DOMAIN s) \X (DOMAIN s) |->
                    \/ ord(s[p[1]].Estatus) < ord(s[p[2]].Estatus)
                    \/ /\ s[p[1]].Estatus = s[p[2]].Estatus
                       /\ antes(s[p[1]].Dias_desde_ultima_venta,
                                s[p[2]].Dias_desde_ultima_venta)]
        o == OrdenEstable(Len(s), menor)
    IN [k \in DOMAIN s |-> s[o[k]]]

\* calcular_directorio; ok = FALSE is the KeyError of line 165 when the sheet
\* has no COL_VENDEDOR column (the rename of line 162 then creates no
\* "UltimoVendedor")
calcular_directorio(t, h) ==
    IF COL_VENDEDOR \notin t.cols THEN [ok |-> FALSE, filas |-> << >>]
    ELSE
      LET d == FilasConCliente(t)
          dir_df == drop_duplicates(OrdenarClienteFecha(MergeVendedor(Agg(d, h), d)))
          out == [i \in DOMAIN dir_df |->
                    [Cliente |-> dir_df[i].Cliente,
                     Estatus |-> dir_df[i].Estatus,
                     Dias_desde_ultima_venta |-> dir_df[i].Dias_desde_ultima_venta,
                     UltimoVendedor |-> dir_df[i].Nombredecontacto,
                     UltimaFechaVenta |-> dir_df[i].UltimaFechaVenta]]
      IN [ok |-> TRUE, filas |-> OrdenarEstatusDias(out)]

----------------------------------------------------------------------------
(* Catalog loaders.  A catalog row is [Cliente, Ciudad], both text cells;   *)
(* the other contact columns are carried like Ciudad.                       *)

\* lines 184-188 / 194-198: key stripped, the known columns kept
NormalizarExterno(filas) ==
    [i \in DOMAIN filas |->
        [Cliente |-> Strip(filas[i].Cliente), Ciudad |-> filas[i].Ciudad]]

\* cargar_catalogo_local; ok = FALSE is an exception of pd.read_excel
cargar_catalogo_local(fuente) ==
    IF fuente.estado = "ausente" THEN [ok |-> TRUE, cat |-> Ninguno]
    ELSE IF fuente.estado = "error" THEN [ok |-> FALSE, cat |-> Ninguno]
    ELSE IF fuente.estado = "sin_llave" THEN [ok |-> TRUE, cat |-> Ninguno]
    ELSE [ok |-> TRUE, cat |-> Algun(NormalizarExterno(fuente.filas))]

\* cargar_catalogo_drive; ok = FALSE is an exception of read_excel_from_drive
cargar_catalogo_drive(file_id, fuente) ==
    IF ~file_id THEN [ok |-> TRUE, cat |-> Ninguno]
    ELSE IF fuente.estado = "error" THEN [ok |-> FALSE, cat |-> Ninguno]
    ELSE IF fuente.estado = "sin_llave" THEN [ok |-> TRUE, cat |-> Ninguno]
    ELSE [ok |-> TRUE, cat |-> Algun(NormalizarExterno(fuente.filas))]

\* cargar_catalogo_mismo_excel: the sheet is read by position (header=None);
\* read_excel returns the selected columns in sheet order, so cat.columns =
\* nombres names sheet column A "Cliente" and column B "Ciudad".  Any
\* exception gives the warning and None; in local mode a missing
\* VENTAS_FILE gives None before the read (lines 221-222), in Drive mode a
\* missing file is an exception of the download.
cargar_catalogo_mismo_excel(m, hoja) ==
    IF m # "drive" /\ hoja.estado = "ausente" THEN Ninguno
    ELSE IF hoja.estado # "ok" THEN Ninguno
    ELSE
      LET cat == [i \in DOMAIN hoja.filas |->
                    [Cliente |-> Strip(hoja.filas[i].A), Ciudad |-> hoja.filas[i].B]]
          sin_na == Filtrar(cat, { i \in DOMAIN cat : cat[i].Cliente # NA })
      IN Algun(drop_duplicates(sin_na))

\* catalogo_es_None with the external source always consulted
catalogo_es_None_siempre(c) == TRUE

\* line 275 / 286: "if catalogo is None"
catalogo_es_None(c) == ~c.hay

\* merge_catalogo: None gives the directory itself, otherwise a left merge on
\* the key
merge_catalogo(directorio, cat) ==
    IF ~cat.hay THEN directorio
    ELSE
      Aplanar([k \in DOMAIN directorio |->
        LET m == Filtrar(cat.filas,
                    { i \in DOMAIN cat.filas :
                        cat.filas[i].Cliente = directorio[k].Cliente })
            fila(ciudad) ==
                [Cliente |-> directorio[k].Cliente, Ciudad |-> ciudad,
                 Estatus |-> directorio[k].Estatus,
                 Dias_desde_ultima_venta |-> directorio[k].Dias_desde_ultima_venta,
                 UltimoVendedor |-> directorio[k].UltimoVendedor,
                 UltimaFechaVenta |-> directorio[k].UltimaFechaVenta]
        IN IF m = << >> THEN << fila(NA) >>
           ELSE [j \in DOMAIN m |-> fila(m[j].Ciudad)]])

----------------------------------------------------------------------------
(* Filters, lines 297-330 *)

DiasValidos(t) ==
    { t[i].Dias_desde_ultima_venta[1] :
        i \in { j \in DOMAIN t : t[j].Dias_desde_ultima_venta # << >> } }
Minimo(S) == CHOOSE m \in S : \A v \in S : m <= v
Maximo(S) == CHOOSE m \in S : \A v \in S : v <= m

\* line 302
vendedores(t) ==
    {"Todos"} \cup
    { t[i].UltimoVendedor : i \in { j \in DOMAIN t : t[j].UltimoVendedor # VendedorNA } }

\* the slider's initial value, lines 304-311 (DiasValidos(t) is not empty)
rango_inicial(t) ==
    << Minimo({0, Minimo(DiasValidos(t))}), Maximo({0, Maximo(DiasValidos(t))}) >>

\* str.lower() on the characters used
Lower(s) ==
    [i \in DOMAIN s |-> CASE s[i] = "A" -> "a" [] s[i] = "B" -> "b" [] OTHER -> s[i]]

\* q in s
Contiene(s, q) ==
    \E i \in 0..(Len(s) - Len(q)) : SubSeq(s, i + 1, i + Len(q)) = q

\* _contains_any, lines 316-322, over the columns of the row that are modelled
_contains_any(row, q) ==
    \E c \in {"Cliente", "Ciudad"} \cap DOMAIN row :
        row[c] # NA /\ Contiene(Lower(row[c]), Lower(q))

\* lines 314-330
filtrar(t, q, est, ven, r) ==
    LET f0 == IF q # << >>
              THEN Filtrar(t, { i \in DOMAIN t : _contains_any(t[i], q) }) ELSE t
        f1 == IF est # "Todos"
              THEN Filtrar(f0, { i \in DOMAIN f0 : f0[i].Estatus = est }) ELSE f0
        f2 == IF ven # "Todos"
              THEN Filtrar(f1, { i \in DOMAIN f1 : f1[i].UltimoVendedor = ven }) ELSE f1
    IN Filtrar(f2, { i \in DOMAIN f2 :
                      /\ f2[i].Dias_desde_ultima_venta # << >>
                      /\ f2[i].Dias_desde_ultima_venta[1] >= r[1]
                      /\ f2[i].Dias_desde_ultima_venta[1] <= r[2] })

----------------------------------------------------------------------------
(* Inputs *)

Tabla(cols, filas) == { [cols |-> cols, rows |-> s] : s \in SeqsHasta(filas, MaxVentas) }

\* today, and last-sale dates 90, 89 and 10 days before it
HoyVals == {100}
Clientes == { NA, <<"A">>, <<" ", "A", " ">>, <<"B">>, <<" ">> }
Vendedores == {"J", "K"}
\* (Fechadepedido, Fechadelafactura) of a row
ParesDeFechas ==
    { <<Texto, Vacio>>, <<Fecha(10), Fecha(11)>>, <<Fecha(11), Texto>>, <<Fecha(10), Vacio>> }

\* sales sheets for the directory computation: two date columns, one date
\* column, no COL_VENDEDOR column, no date column
TablasDirectorio ==
    Tabla({"Cliente", "Fechadepedido", "Fechadelafactura", "Nombredecontacto"},
          { [Cliente |-> c, Fechadepedido |-> p[1], Fechadelafactura |-> p[2],
             Nombredecontacto |-> v] :
            c \in Clientes, p \in ParesDeFechas, v \in Vendedores })
    \cup
    Tabla({"Cliente", "Fechadelafactura", "Nombredecontacto"},
          { [Cliente |-> c, Fechadelafactura |-> d, Nombredecontacto |-> v] :
            c \in {<<"A">>, <<"B">>}, d \in {Texto, Fecha(10), Fecha(90)},
            v \in Vendedores })
    \cup
    Tabla({"Cliente", "Fechadepedido"},
          { [Cliente |-> c, Fechadepedido |-> d] :
            c \in {NA, <<"A">>, <<"B">>}, d \in {Texto, Fecha(11)} })
    \cup
    Tabla({"Cliente", "Nombredecontacto"},
          { [Cliente |-> c, Nombredecontacto |-> v] :
            c \in {<<"A">>}, v \in Vendedores })

\* sales sheets for the whole run
TablasCorrida ==
    Tabla({"Cliente", "Fechadepedido", "Nombredecontacto"},
          { [Cliente |-> c, Fechadepedido |-> d, Nombredecontacto |-> "J"] :
            c \in {NA, <<"A">>, <<"B">>}, d \in {Texto, Fecha(11)} })
    \cup
    { [cols |-> {"Cliente", "Nombredecontacto"}, rows |-> << >>] }

\* the catalog sheet of the sales workbook: unreadable, or rows by position
Hoja(filas) == [estado |-> "ok", filas |-> filas]
HojaError == [estado |-> "error", filas |-> << >>]
HojaAusente == [estado |-> "ausente", filas |-> << >>]
HojasCorrida ==
    { HojaError, HojaAusente } \cup
    { Hoja(s) :
        s \in SeqsHasta({ [A |-> <<"A">>, B |-> <<"x">>],
                          [A |-> <<" ", "A">>, B |-> <<"y">>],
                          [A |-> NA, B |-> <<"x">>] }, MaxCatalogo) }
HojasDirectorio == { HojaError, HojaAusente, Hoja(<< >>) }

\* the external catalog: no file, unreadable, no key column, or rows
Fuente(e) == [estado |-> e, filas |-> << >>]
NoLeida == Fuente("no_leida")
FuentesCorrida ==
    { Fuente("ausente"), Fuente("error"), Fuente("sin_llave") } \cup
    { [estado |-> "ok", filas |-> s] :
        s \in SeqsHasta({ [Cliente |-> <<"A">>, Ciudad |-> <<"x">>],
                          [Cliente |-> <<" ", "A">>, Ciudad |-> <<"y">>],
                          [Cliente |-> NA, Ciudad |-> <<"x">>] }, MaxCatalogo) }
FuentesDirectorio == { Fuente("ausente"), Fuente("error"), Fuente("sin_llave") }

\* the user's choices: search texts, status options, and the slider positions
\* tried besides the ends of the slider
EstatusOpciones == {"Todos", "En uso", "Disponible"}
TextosCorrida == { << >>, <<"A">>, <<"x">> }
MarcasCorrida == {50}
\* a range slider returns (lo, hi) with min_value <= lo <= hi <= max_value
Rangos(t, Marcas) ==
    LET ini == rango_inicial(t)
        pos == { ini[1], ini[2] } \cup { m \in Marcas : ini[1] <= m /\ m <= ini[2] }
    IN { <<lo, hi>> : lo \in pos \ {ini[2]}, hi \in pos \ {ini[1]} } \cup { ini }

----------------------------------------------------------------------------
(* The script, section (E) *)

TablaVacia == [cols |-> {}, rows |-> << >>]

SinCache ==
    [ventas |-> [hay |-> FALSE, v |-> TablaVacia],
     mismo |-> [hay |-> FALSE, v |-> HojaError],
     ext |-> [hay |-> FALSE, v |-> Fuente("no_leida")]]
EnCache(x) == [hay |-> TRUE, v |-> x]

\* the script's variables at the top of a run
Arranque ==
    /\ pc = "leer" /\ error = "" /\ aviso = FALSE
    /\ ventas_raw = TablaVacia /\ ventas = TablaVacia
    /\ hoja_mismo = HojaError /\ fuente_ext = NoLeida
    /\ consultadas = << >> /\ catalogo = Ninguno
    /\ hoy = 0 /\ base = << >> /\ df = << >>
    /\ texto = << >> /\ estatus = "Todos" /\ vendedor = "Todos"
    /\ rango = <<0, 0>> /\ f = << >>

Inicial == Arranque /\ cache = SinCache

\* every setting of the load mode and of the optional Drive catalog file
Init ==
    /\ modo \in {"drive", "local"}
    /\ id_catalogo \in (IF modo = "drive" THEN BOOLEAN ELSE {FALSE})
    /\ Inicial

\* the settings of lines 56 and 63
InitDirectorio ==
    /\ modo = "drive"
    /\ id_catalogo = FALSE
    /\ Inicial

\* st.error and st.stop of lines 290-292
Detener(donde) == pc' = "detenido" /\ error' = donde
\* an exception outside the try block ends the script
Fallar(donde) == pc' = "fallo" /\ error' = donde

\* lines 270 / 279-281: the sales sheet is read, or the read raises.  In Drive
\* mode read_excel_from_drive is served from st.cache_data once it returned.
LeerVentas(Tablas) ==
    /\ pc = "leer"
    /\ IF modo = "drive" /\ cache.ventas.hay
       THEN /\ ventas_raw' = cache.ventas.v
            /\ pc' = "preparar"
            /\ UNCHANGED <<error, cache>>
       ELSE \/ /\ Detener("leer_ventas")
               /\ UNCHANGED <<ventas_raw, cache>>
            \/ \E t \in Tablas :
                 /\ ventas_raw' = t
                 /\ pc' = "preparar"
                 /\ cache' = IF modo = "drive"
                             THEN [cache EXCEPT !.ventas = EnCache(t)] ELSE cache
                 /\ UNCHANGED error
    /\ UNCHANGED <<modo, id_catalogo, aviso, ventas, hoja_mismo, fuente_ext,
                   consultadas, catalogo, hoy, base, df, texto, estatus, vendedor,
                   rango, f>>

\* lines 271 / 282
PrepararVentas ==
    /\ pc = "preparar"
    /\ LET r == preparar_ventas(ventas_raw)
       IN IF r.ok
          THEN /\ ventas' = [cols |-> r.cols, rows |-> r.rows]
               /\ pc' = "catalogo_mismo"
               /\ UNCHANGED error
          ELSE /\ Detener("preparar_ventas")
               /\ UNCHANGED ventas
    /\ UNCHANGED <<modo, id_catalogo, aviso, ventas_raw, hoja_mismo, fuente_ext,
                   consultadas, catalogo, hoy, base, df, texto, estatus, vendedor,
                   rango, f, cache>>

\* lines 273-275 / 284-286.  cargar_catalogo_mismo_excel is cached by its
\* argument: its first result, None included, is what later runs get, and
\* its warning is shown again with it.
CargarCatalogoMismoExcel(Hojas) ==
    /\ pc = "catalogo_mismo"
    /\ \E h \in (IF cache.mismo.hay THEN {cache.mismo.v}
                 ELSE IF modo = "drive" THEN Hojas \ {HojaAusente} ELSE Hojas) :
        LET c == cargar_catalogo_mismo_excel(modo, h)
        IN /\ hoja_mismo' = h
           /\ aviso' = (h.estado = "error")
           /\ catalogo' = c
           /\ cache' = [cache EXCEPT !.mismo = EnCache(h)]
           /\ consultadas' = Append(consultadas, "mismo_excel")
           /\ pc' = IF catalogo_es_None(c) THEN "catalogo_externo" ELSE "calcular"
    /\ UNCHANGED <<modo, id_catalogo, error, ventas_raw, ventas, fuente_ext,
                   hoy, base, df, texto, estatus, vendedor, rango, f>>

\* lines 276 / 287.  The Drive read of the external file is cached once it
\* returned; the local read is not.
CargarCatalogoExterno(Fuentes) ==
    /\ pc = "catalogo_externo"
    /\ \E s \in (IF modo = "drive" /\ ~id_catalogo THEN {NoLeida}
                 ELSE IF modo = "drive" /\ cache.ext.hay THEN {cache.ext.v}
                 ELSE IF modo = "drive" THEN Fuentes \ {Fuente("ausente")}
                 ELSE Fuentes) :
        LET r == IF modo = "drive" THEN cargar_catalogo_drive(id_catalogo, s)
                 ELSE cargar_catalogo_local(s)
        IN /\ fuente_ext' = s
           /\ consultadas' = Append(consultadas, "externo")
           /\ cache' = IF modo = "drive" /\ id_catalogo /\ s.estado # "error"
                       THEN [cache EXCEPT !.ext = EnCache(s)] ELSE cache
           /\ IF r.ok
              THEN /\ catalogo' = r.cat
                   /\ pc' = "calcular"
                   /\ UNCHANGED error
              ELSE /\ Detener("catalogo_externo")
                   /\ UNCHANGED catalogo
    /\ UNCHANGED <<modo, id_catalogo, aviso, ventas_raw, ventas, hoja_mismo,
                   hoy, base, df, texto, estatus, vendedor, rango, f>>

\* line 294.  With no row left after line 132, agg.apply(_estatus, axis=1)
\* returns an empty DataFrame or an empty Series depending on the pandas
\* release, and line 146 raises with the former.
CalcularDirectorio ==
    /\ pc = "calcular"
    /\ \E h \in HoyVals :
       \E lanza \in (IF FilasConCliente(ventas) = << >> THEN BOOLEAN ELSE {FALSE}) :
        LET r == calcular_directorio(ventas, h)
        IN /\ hoy' = h
           /\ IF r.ok /\ ~lanza
              THEN /\ base' = r.filas
                   /\ pc' = "merge"
                   /\ UNCHANGED error
              ELSE /\ Fallar("calcular_directorio")
                   /\ UNCHANGED base
    /\ UNCHANGED <<modo, id_catalogo, aviso, ventas_raw, ventas, hoja_mismo,
                   fuente_ext, consultadas, catalogo, df, texto, estatus, vendedor,
                   rango, f, cache>>

\* line 295
MergeCatalogo ==
    /\ pc = "merge"
    /\ df' = merge_catalogo(base, catalogo)
    /\ pc' = "filtros"
    /\ UNCHANGED <<modo, id_catalogo, error, aviso, ventas_raw, ventas, hoja_mismo,
                   fuente_ext, consultadas, catalogo, hoy, base, texto, estatus,
                   vendedor, rango, f, cache>>

\* lines 297-333: the text input and the two selectboxes give the user's
\* values (lines 300-303); int() of a NaN minimum raises at line 304;
\* otherwise the slider gives its range and the filters are applied.
AplicarFiltros(Textos, Opciones, Marcas) ==
    /\ pc = "filtros"
    /\ \E q \in Textos : \E e \in Opciones : \E v \in vendedores(df) :
        /\ texto' = q
        /\ estatus' = e
        /\ vendedor' = v
        /\ IF DiasValidos(df) = {}
           THEN /\ Fallar("filtros")
                /\ UNCHANGED <<rango, f>>
           ELSE \E r \in Rangos(df, Marcas) :
                /\ rango' = r
                /\ f' = filtrar(df, q, e, v, r)
                /\ pc' = "mostrado"
                /\ UNCHANGED error
    /\ UNCHANGED <<modo, id_catalogo, aviso, ventas_raw, ventas, hoja_mismo,
                   fuente_ext, consultadas, catalogo, hoy, base, df, cache>>

\* a widget interaction or a reload runs the script again from the top; only
\* the settings and st.cache_data survive
Rerun ==
    /\ pc \in {"mostrado", "detenido", "fallo"}
    /\ pc' = "leer" /\ error' = "" /\ aviso' = FALSE
    /\ ventas_raw' = TablaVacia /\ ventas' = TablaVacia
    /\ hoja_mismo' = HojaError /\ fuente_ext' = NoLeida
    /\ consultadas' = << >> /\ catalogo' = Ninguno
    /\ hoy' = 0 /\ base' = << >> /\ df' = << >>
    /\ texto' = << >> /\ estatus' = "Todos" /\ vendedor' = "Todos"
    /\ rango' = <<0, 0>> /\ f' = << >>
    /\ UNCHANGED <<modo, id_catalogo, cache>>

\* the whole run, every load configuration
Next ==
    \/ LeerVentas(TablasCorrida)
    \/ PrepararVentas
    \/ CargarCatalogoMismoExcel(HojasCorrida)
    \/ CargarCatalogoExterno(FuentesCorrida)
    \/ CalcularDirectorio
    \/ MergeCatalogo
    \/ AplicarFiltros(TextosCorrida, EstatusOpciones, MarcasCorrida)
    \/ Rerun

Spec == Init /\ [][Next]_vars

\* the run as configured, over the sales sheets of the directory computation,
\* with the search text and the slider left alone
NextDirectorio ==
    \/ LeerVentas(TablasDirectorio)
    \/ PrepararVentas
    \/ CargarCatalogoMismoExcel(HojasDirectorio)
    \/ CargarCatalogoExterno(FuentesDirectorio)
    \/ CalcularDirectorio
    \/ MergeCatalogo
    \/ AplicarFiltros({ << >> }, EstatusOpciones, {})
    \/ Rerun

SpecDirectorio == InitDirectorio /\ [][NextDirectorio]_vars

----------------------------------------------------------------------------
(* Properties *)

Calculado == pc \in {"merge", "filtros", "mostrado"}
Fusionado == pc \in {"filtros", "mostrado"}

\* the rows of the sheet as read that belong to customer c
FilasDe(c) ==
    { j \in DOMAIN ventas_raw.rows :
        /\ ventas_raw.rows[j][COL_CLIENTE] # NA
        /\ Strip(ventas_raw.rows[j][COL_CLIENTE]) = c }
ColumnasDeFecha == { c \in Rango(FECHAS_COLS) : c \in ventas_raw.cols }

\* C1: the customer identities of the directory are pairwise distinct,
\* non-empty and in whitespace-trimmed form.
C1_IdentidadesUnicasNoVaciasRecortadas ==
    Calculado =>
        \A i \in DOMAIN base :
            /\ base[i].Cliente # NA
            /\ base[i].Cliente # << >>
            /\ Strip(base[i].Cliente) = base[i].Cliente
            /\ \A j \in DOMAIN base : j # i => base[j].Cliente # base[i].Cliente

\* C2: the status of every directory entry is "Disponible" when the last-sale
\* date is missing or the day count is at least 90, and "En uso" when the day
\* count is below 90.
C2_EstatusPorUmbral ==
    \A i \in DOMAIN base :
        IF base[i].UltimaFechaVenta = << >>
        THEN base[i].Estatus = "Disponible"
        ELSE IF base[i].Dias_desde_ultima_venta[1] >= 90
             THEN base[i].Estatus = "Disponible"
             ELSE base[i].Estatus = "En uso"

\* C2 witness: a directory with an entry at exactly 90 days ("Disponible") and
\* an entry at 89 days ("En uso").
C2_Testigo ==
    \E i, j \in DOMAIN base :
        /\ base[i].Dias_desde_ultima_venta = <<90>> /\ base[i].Estatus = "Disponible"
        /\ base[j].Dias_desde_ultima_venta = <<89>> /\ base[j].Estatus = "En uso"

\* C3: the last-sale date of every directory entry is the latest date the
\* parser accepts in any candidate date cell of any row of that customer, the
\* day count is the snapshot date minus that date, and both are missing when
\* no such cell exists.
C3_UltimaFechaYDias ==
    Calculado =>
        \A i \in DOMAIN base :
            LET fechas == { ventas_raw.rows[p[1]][p[2]].d :
                            p \in { q \in FilasDe(base[i].Cliente) \X ColumnasDeFecha :
                                      ventas_raw.rows[q[1]][q[2]].k = "fecha" } }
            IN IF fechas = {}
               THEN /\ base[i].UltimaFechaVenta = << >>
                    /\ base[i].Dias_desde_ultima_venta = << >>
               ELSE /\ base[i].UltimaFechaVenta = << Maximo(fechas) >>
                    /\ base[i].Dias_desde_ultima_venta = << hoy - Maximo(fechas) >>

\* C3 witness: a directory entry with a last-sale date whose customer has two
\* rows, one holding two different parsed dates and one holding a cell the
\* parser rejects.
C3_Testigo ==
    /\ Calculado
    /\ \E i \in DOMAIN base :
        /\ base[i].UltimaFechaVenta # << >>
        /\ \E j, k \in FilasDe(base[i].Cliente) :
            /\ j # k
            /\ \E a, b \in ColumnasDeFecha :
                /\ ventas_raw.rows[j][a].k = "fecha"
                /\ ventas_raw.rows[j][b].k = "fecha"
                /\ ventas_raw.rows[j][a].d # ventas_raw.rows[j][b].d
            /\ \E a \in ColumnasDeFecha : ventas_raw.rows[k][a].k = "texto"

\* the prepared rows of customer c whose effective date is u
FilasEnFecha(c, u) ==
    { j \in DOMAIN ventas.rows :
        /\ ventas.rows[j][COL_CLIENTE] # NA
        /\ Strip(ventas.rows[j][COL_CLIENTE]) = c
        /\ ventas.rows[j]["FechaVenta_Fila"] = u }

\* C4: for every directory entry with a last-sale date, the last agent is the
\* agent of a row of that customer whose effective date is the last-sale date,
\* and among several such rows it is the agent of the first one of the sheet.
C4_UltimoVendedor ==
    Calculado =>
        \A i \in DOMAIN base :
            base[i].UltimaFechaVenta # << >> =>
                LET M == FilasEnFecha(base[i].Cliente, base[i].UltimaFechaVenta)
                IN /\ M # {}
                   /\ base[i].UltimoVendedor = ventas.rows[Minimo(M)][COL_VENDEDOR]

\* C4 witness: a directory entry whose customer has two rows on the last-sale
\* date with different agents.
C4_Testigo ==
    /\ Calculado
    /\ \E i \in DOMAIN base :
        /\ base[i].UltimaFechaVenta # << >>
        /\ \E j, k \in FilasEnFecha(base[i].Cliente, base[i].UltimaFechaVenta) :
            ventas.rows[j][COL_VENDEDOR] # ventas.rows[k][COL_VENDEDOR]

\* C5: the merged table has exactly one row per directory entry, in the
\* directory's order, whichever loader produced the catalog.
C5_UnaFilaPorEntrada ==
    Fusionado =>
        /\ Len(df) = Len(base)
        /\ \A i \in DOMAIN base : df[i].Cliente = base[i].Cliente

\* the rows of the external source whose stripped key is c
FilasExternas(c) ==
    { j \in DOMAIN fuente_ext.filas :
        /\ fuente_ext.filas[j].Cliente # NA
        /\ Strip(fuente_ext.filas[j].Cliente) = c }

\* the catalog sheet of the sales workbook was unreadable or its file absent
SinHoja == hoja_mismo.estado \in {"error", "ausente"}

\* C6: the sheet of the sales workbook is consulted first; the external source
\* is consulted only after that sheet gave no catalog; when the sheet gave none
\* and the external source holds a catalog, the merged table carries the
\* external source's data; when neither gives a catalog the merged table is
\* the directory itself.
C6_PrioridadDeFuentes ==
    /\ consultadas # << >> => consultadas[1] = "mismo_excel"
    /\ pc \in {"calcular", "merge", "filtros", "mostrado", "fallo"}
          => consultadas # << >>
    /\ (\E k \in DOMAIN consultadas : consultadas[k] = "externo")
          => consultadas = << "mismo_excel", "externo" >> /\ SinHoja
    /\ (Fusionado /\ SinHoja /\ fuente_ext.estado = "ok")
          => /\ \A k \in DOMAIN df :
                   IF FilasExternas(df[k].Cliente) = {}
                   THEN df[k].Ciudad = NA
                   ELSE \E j \in FilasExternas(df[k].Cliente) :
                            df[k].Ciudad = fuente_ext.filas[j].Ciudad
             /\ \A i \in DOMAIN base : \A j \in FilasExternas(base[i].Cliente) :
                   \E k \in DOMAIN df :
                       /\ df[k].Cliente = base[i].Cliente
                       /\ df[k].Ciudad = fuente_ext.filas[j].Ciudad
    /\ (Fusionado /\ SinHoja
                  /\ fuente_ext.estado \in {"ausente", "sin_llave", "no_leida"})
          => df = base

\* C6 witness: the sheet of the sales workbook failed, the external source
\* held rows, and the table displayed carries a city of the external source.
C6_Testigo ==
    /\ pc = "mostrado"
    /\ consultadas = << "mismo_excel", "externo" >>
    /\ SinHoja
    /\ fuente_ext.estado = "ok"
    /\ \E k \in DOMAIN df : \E j \in FilasExternas(df[k].Cliente) :
           df[k].Ciudad = fuente_ext.filas[j].Ciudad

\* C7: once the sales sheet is read and prepared, no failure of a catalog
\* source stops the run.
C7_CatalogoNuncaFatal ==
    consultadas # << >> => pc # "detenido"

\* some row of the sheet as read carries an identity
HayFilaConCliente ==
    \E j \in DOMAIN ventas_raw.rows : ventas_raw.rows[j][COL_CLIENTE] # NA

\* C8: a sales sheet with the identity column and a candidate date column
\* never makes the run end in an exception, whatever dates its rows hold
\* (stated for the sheets where at least one row carries an identity).
C8_FilasNoAbortan ==
    (COL_CLIENTE \in ventas_raw.cols /\ ColumnasDeFecha # {} /\ HayFilaConCliente)
    => pc # "fallo"

\* C9: a sales sheet with the identity column and a candidate date column but
\* no agent-name column still gets its directory computed (stated for the
\* sheets where at least one row carries an identity).
C9_VendedorOpcional ==
    (COL_CLIENTE \in ventas_raw.cols /\ ColumnasDeFecha # {}
        /\ COL_VENDEDOR \notin ventas_raw.cols /\ HayFilaConCliente)
    => ~(pc = "fallo" /\ error = "calcular_directorio")

\* C10: with the filters at their defaults (empty search text, both
\* selectboxes at "Todos", the slider at its full initial range), every row of
\* the computed directory is in the table displayed.
C10_DefectoMuestraTodo ==
    (pc = "mostrado" /\ texto = << >> /\ estatus = "Todos" /\ vendedor = "Todos"
        /\ rango = rango_inicial(df))
    => /\ Len(f) = Len(df)
       /\ \A i \in DOMAIN base : \E k \in DOMAIN f : f[k].Cliente = base[i].Cliente
====
